---- MODULE Spec2Model ----
(***************************************************************************)
(* A model of file_utils.py: FileReader, FileWriter and FileUtils over a    *)
(* POSIX filesystem.  A file holds a sequence of code units (one per       *)
(* character of the small alphabets used here, plus the byte XFF that is    *)
(* not valid UTF-8); a path is the sequence of its components.              *)
(***************************************************************************)
EXTENDS Integers, Sequences, FiniteSets, TLC

VARIABLES
    fs,     \* the filesystem: path -> entry, for the paths at which something exists
    fs0,    \* the filesystem the behaviour started from
    pre,    \* the filesystem before the last call
    ret,    \* the last call: operation, arguments, exception raised or value returned
    log,    \* the write calls that returned without error, in call order
    pc      \* the caller's position in the write_csv / read_csv scenario

vars == <<fs, fs0, pre, ret, log, pc>>

\* ------------------------------------------------------------------ bounds
\* how many write_text calls one behaviour records
MaxCalls == 3

\* how many rows a write_csv call is given
MaxRows == 2

\* how many characters a path given to get_file_extension has
MaxPathLen == 5

\* ------------------------------------------------------------- characters
CR == "\r"
LF == "\n"
QUOTE == "\""
XFF == "xFF"

\* os.linesep of the platform modelled (POSIX)
linesep == <<LF>>

\* ------------------------------------------------------------------ paths
D == <<"d">>
A_T == <<"a", ".", "t">>
B_J == <<"b", ".", "j">>
S == <<"s">>

\* the paths the calls are made on: d, d/a.t, d/b.j, d/s, d/s/a.t
Paths == {<<D>>, <<D, A_T>>, <<D, B_J>>, <<D, S>>, <<D, S, A_T>>}

Parent(p) == SubSeq(p, 1, Len(p) - 1)

\* os.path.join(directory, file)
Join(directory, file) == Append(directory, file)

DirEntry == [kind |-> "dir", data |-> <<>>]

FileEntry(data) == [kind |-> "file", data |-> data]

\* os.path.exists / os.path.isfile / os.path.isdir
Exists(f, p) == p \in DOMAIN f

IsFile(f, p) == p \in DOMAIN f /\ f[p].kind = "file"

IsDir(f, p) == p = <<>> \/ (p \in DOMAIN f /\ f[p].kind = "dir")

\* a filesystem: every entry's parent is a directory
WellFormed(f) == \A p \in DOMAIN f : IsDir(f, Parent(p))

\* f with entry e at path p
Put(f, p, e) == [q \in DOMAIN f \cup {p} |-> IF q = p THEN e ELSE f[q]]

\* The error of resolving the directory part of p, "none" when every
\* component before the last is a directory: ENOENT for a missing
\* component, ENOTDIR for one that is a regular file.
RECURSIVE ResolveFrom(_, _, _)
ResolveFrom(f, p, k) ==
    IF k >= Len(p) THEN "none"
    ELSE LET q == SubSeq(p, 1, k)
         IN  IF ~Exists(f, q) THEN "FileNotFoundError"
             ELSE IF f[q].kind = "file" THEN "NotADirectoryError"
             ELSE ResolveFrom(f, p, k + 1)

ResolveParent(f, p) == ResolveFrom(f, p, 1)

\* open(file_path, 'r'): the OSError subclass raised, or "none"
OpenRead(f, p) ==
    LET e == ResolveParent(f, p)
    IN  IF e # "none" THEN e
        ELSE IF ~Exists(f, p) THEN "FileNotFoundError"
        ELSE IF f[p].kind = "dir" THEN "IsADirectoryError"
        ELSE "none"

\* open as if every mode truncated
OpenWriteAlwaysTruncates(f, p, mode) ==
    LET e == ResolveParent(f, p)
    IN  IF e # "none" THEN [exc |-> e, fs |-> f]
        ELSE IF Exists(f, p) /\ f[p].kind = "dir"
             THEN [exc |-> "IsADirectoryError", fs |-> f]
        ELSE [exc |-> "none", fs |-> Put(f, p, FileEntry(<<>>))]

\* open(file_path, 'w' or 'a'): [exc, fs]; 'w' creates or truncates, 'a'
\* creates or keeps the content and writes at its end.
OpenWrite(f, p, mode) ==
    LET e == ResolveParent(f, p)
    IN  IF e # "none" THEN [exc |-> e, fs |-> f]
        ELSE IF Exists(f, p) /\ f[p].kind = "dir"
             THEN [exc |-> "IsADirectoryError", fs |-> f]
        ELSE IF mode = "a" /\ Exists(f, p) THEN [exc |-> "none", fs |-> f]
        ELSE [exc |-> "none", fs |-> Put(f, p, FileEntry(<<>>))]

\* f.write(data) on the file opened at p: the data go to the end of the file
WriteData(f, p, data) == Put(f, p, FileEntry(f[p].data \o data))

\* --------------------------------------------------- text mode, newline=None
\* writing: each '\n' becomes os.linesep
RECURSIVE TranslateOnWrite(_)
TranslateOnWrite(s) ==
    IF s = <<>> THEN <<>>
    ELSE (IF Head(s) = LF THEN linesep ELSE <<Head(s)>>) \o TranslateOnWrite(Tail(s))

\* reading: '\r\n' and a lone '\r' become '\n' (universal newlines)
RECURSIVE TranslateOnRead(_)
TranslateOnRead(s) ==
    IF s = <<>> THEN <<>>
    ELSE IF Head(s) = CR
         THEN IF Len(s) >= 2 /\ s[2] = LF
              THEN <<LF>> \o TranslateOnRead(Tail(Tail(s)))
              ELSE <<LF>> \o TranslateOnRead(Tail(s))
         ELSE <<Head(s)>> \o TranslateOnRead(Tail(s))

\* decoding with encoding='utf-8': fails on a byte that is not UTF-8
Decodable(data) == \A i \in 1..Len(data) : data[i] # XFF

\* str.splitlines(keepends) as readlines() does after translation: each
\* line keeps its '\n'
RECURSIVE SplitLines(_, _)
SplitLines(s, cur) ==
    IF s = <<>> THEN (IF cur = <<>> THEN <<>> ELSE <<cur>>)
    ELSE IF Head(s) = LF THEN <<Append(cur, LF)>> \o SplitLines(Tail(s), <<>>)
    ELSE SplitLines(Tail(s), Append(cur, Head(s)))

\* Python's None, where a key, a value or an argument may be None
None == <<"None">>

\* ------------------------------------------------------------ call results
NoCall == [op |-> "none", path |-> <<>>, arg |-> <<>>, exc |-> "none",
           msg |-> <<>>, val |-> <<>>]

Returned(op, p, arg, val) ==
    [op |-> op, path |-> p, arg |-> arg, exc |-> "none", msg |-> <<>>, val |-> val]

\* an exception whose message is a fixed text followed by the path (or by
\* the OSError's own text, which names the path)
Raised(op, p, arg, exc, text) ==
    [op |-> op, path |-> p, arg |-> arg, exc |-> exc,
     msg |-> <<text, p>>, val |-> <<>>]

\* an exception whose message does not show the path
RaisedPlain(op, p, arg, exc, text) ==
    [op |-> op, path |-> p, arg |-> arg, exc |-> exc,
     msg |-> <<text>>, val |-> <<>>]

\* The except clauses shared by the readers: FileNotFoundError is re-raised
\* naming the path, any other OSError as IOError; what is neither passes
\* through unchanged.
OSErrors == {"FileNotFoundError", "NotADirectoryError", "IsADirectoryError"}

ReadHandlerNoNotFoundClause(op, p, arg, exc) ==
    IF exc \in OSErrors
    THEN Raised(op, p, arg, "OSError", "read failed")
    ELSE RaisedPlain(op, p, arg, exc, "")

ReadHandler(op, p, arg, exc) ==
    IF exc = "FileNotFoundError"
    THEN Raised(op, p, arg, "FileNotFoundError", "file does not exist")
    ELSE IF exc \in OSErrors
    THEN Raised(op, p, arg, "OSError", "read failed")
    ELSE RaisedPlain(op, p, arg, exc, "")

\* ------------------------------------------------------------- FileReader
read_text(f, p) ==
    LET e == OpenRead(f, p)
    IN  IF e # "none" THEN ReadHandler("read_text", p, <<>>, e)
        ELSE IF ~Decodable(f[p].data)
             THEN ReadHandler("read_text", p, <<>>, "UnicodeDecodeError")
        ELSE Returned("read_text", p, <<>>, TranslateOnRead(f[p].data))

read_lines(f, p) ==
    LET e == OpenRead(f, p)
    IN  IF e # "none" THEN ReadHandler("read_lines", p, <<>>, e)
        ELSE IF ~Decodable(f[p].data)
             THEN ReadHandler("read_lines", p, <<>>, "UnicodeDecodeError")
        ELSE Returned("read_lines", p, <<>>,
                      SplitLines(TranslateOnRead(f[p].data), <<>>))

\* ------------------------------------------------- json.load, yaml.safe_load
\* The documents over the characters '1', '[' and ']': a number is a run of
\* '1', a list is '[' ']' or '[' value ']'.  ParseValue reads one value of
\* s from position i: [ok, next, val].
RECURSIVE ParseNumber(_, _, _)
ParseNumber(s, i, n) ==
    IF i <= Len(s) /\ s[i] = "1" THEN ParseNumber(s, i + 1, 10 * n + 1)
    ELSE [ok |-> TRUE, next |-> i, val |-> n]

RECURSIVE ParseValue(_, _)
ParseValue(s, i) ==
    IF i > Len(s) THEN [ok |-> FALSE, next |-> i, val |-> 0]
    ELSE IF s[i] = "1" THEN ParseNumber(s, i, 0)
    ELSE IF s[i] = "["
    THEN IF i + 1 <= Len(s) /\ s[i + 1] = "]"
         THEN [ok |-> TRUE, next |-> i + 2, val |-> <<>>]
         ELSE LET v == ParseValue(s, i + 1)
              IN  IF v.ok /\ v.next <= Len(s) /\ s[v.next] = "]"
                  THEN [ok |-> TRUE, next |-> v.next + 1, val |-> <<v.val>>]
                  ELSE [ok |-> FALSE, next |-> v.next, val |-> 0]
    ELSE [ok |-> FALSE, next |-> i, val |-> 0]

\* json.load: the text is exactly one value
JsonLoad(s) ==
    LET v == ParseValue(s, 1)
    IN  IF v.ok /\ v.next = Len(s) + 1 THEN v ELSE [v EXCEPT !.ok = FALSE]

\* yaml.safe_load: an empty document is None; a document that starts with
\* '1' is one plain scalar to its end (an integer when all of it is digits,
\* a string otherwise); one that starts with '[' is a flow sequence
YamlLoad(s) ==
    IF s = <<>> THEN [ok |-> TRUE, next |-> 1, val |-> None]
    ELSE IF s[1] = "1"
    THEN LET n == ParseNumber(s, 1, 0)
         IN  [ok |-> TRUE, next |-> Len(s) + 1,
              val |-> IF n.next = Len(s) + 1 THEN n.val ELSE s]
    ELSE JsonLoad(s)

read_json(f, p) ==
    LET e == OpenRead(f, p)
    IN  IF e # "none" THEN ReadHandler("read_json", p, <<>>, e)
        ELSE IF ~Decodable(f[p].data)
             THEN ReadHandler("read_json", p, <<>>, "UnicodeDecodeError")
        ELSE LET v == JsonLoad(TranslateOnRead(f[p].data))
             IN  IF v.ok THEN Returned("read_json", p, <<>>, v.val)
                 ELSE RaisedPlain("read_json", p, <<>>, "JSONDecodeError", "JSON parse failed")

read_yaml(f, p) ==
    LET e == OpenRead(f, p)
    IN  IF e # "none" THEN ReadHandler("read_yaml", p, <<>>, e)
        ELSE IF ~Decodable(f[p].data)
             THEN ReadHandler("read_yaml", p, <<>>, "UnicodeDecodeError")
        ELSE LET v == YamlLoad(TranslateOnRead(f[p].data))
             IN  IF v.ok THEN Returned("read_yaml", p, <<>>, v.val)
                 ELSE RaisedPlain("read_yaml", p, <<>>, "YAMLError", "YAML parse failed")

\* ------------------------------------------------------------ csv.reader
\* The reader's state machine (default dialect but for the delimiter:
\* quotechar '"', doublequote, no escapechar, not strict).  ps is
\* [st, field, fields]; EOL is the end-of-line mark the reader feeds itself
\* after each line.
EOL == "EOL"

SaveField(ps, st) ==
    [st |-> st, field |-> <<>>, fields |-> Append(ps.fields, ps.field)]

AddChar(ps, c, st) ==
    [st |-> st, field |-> Append(ps.field, c), fields |-> ps.fields]

AfterNewline(c) == IF c = EOL THEN "START_RECORD" ELSE "EAT_CRNL"

StartField(ps, c, delim) ==
    IF c \in {LF, CR, EOL} THEN SaveField(ps, AfterNewline(c))
    ELSE IF c = QUOTE THEN [ps EXCEPT !.st = "IN_QUOTED_FIELD"]
    ELSE IF c = delim THEN SaveField(ps, "START_FIELD")
    ELSE AddChar(ps, c, "IN_FIELD")

ProcessChar(ps, c, delim) ==
    CASE ps.st = "START_RECORD" ->
            IF c = EOL THEN ps
            ELSE IF c \in {LF, CR} THEN [ps EXCEPT !.st = "EAT_CRNL"]
            ELSE StartField(ps, c, delim)
      [] ps.st = "START_FIELD" -> StartField(ps, c, delim)
      [] ps.st = "IN_FIELD" ->
            IF c \in {LF, CR, EOL} THEN SaveField(ps, AfterNewline(c))
            ELSE IF c = delim THEN SaveField(ps, "START_FIELD")
            ELSE AddChar(ps, c, "IN_FIELD")
      [] ps.st = "IN_QUOTED_FIELD" ->
            IF c = EOL THEN ps
            ELSE IF c = QUOTE THEN [ps EXCEPT !.st = "QUOTE_IN_QUOTED_FIELD"]
            ELSE AddChar(ps, c, "IN_QUOTED_FIELD")
      [] ps.st = "QUOTE_IN_QUOTED_FIELD" ->
            IF c = QUOTE THEN AddChar(ps, c, "IN_QUOTED_FIELD")
            ELSE IF c = delim THEN SaveField(ps, "START_FIELD")
            ELSE IF c \in {LF, CR, EOL} THEN SaveField(ps, AfterNewline(c))
            ELSE AddChar(ps, c, "IN_FIELD")
      [] ps.st = "EAT_CRNL" ->
            IF c \in {LF, CR} THEN ps
            ELSE IF c = EOL THEN [ps EXCEPT !.st = "START_RECORD"]
            ELSE [ps EXCEPT !.st = "ERROR"]
      [] OTHER -> ps

\* the text with EOL after each line; with newline='' a line ends after
\* '\n', '\r\n' or a lone '\r', and the last line at the end of the text
RECURSIVE MarkLines(_, _)
MarkLines(s, inLine) ==
    IF s = <<>> THEN (IF inLine THEN <<EOL>> ELSE <<>>)
    ELSE IF Head(s) = LF THEN <<LF, EOL>> \o MarkLines(Tail(s), FALSE)
    ELSE IF Head(s) = CR
         THEN IF Len(s) >= 2 /\ s[2] = LF
              THEN <<CR, LF, EOL>> \o MarkLines(Tail(Tail(s)), FALSE)
              ELSE <<CR, EOL>> \o MarkLines(Tail(s), FALSE)
    ELSE <<Head(s)>> \o MarkLines(Tail(s), TRUE)

NewRecord == [st |-> "START_RECORD", field |-> <<>>, fields |-> <<>>]

\* The records csv.reader yields for the marked text s: a record is complete
\* when a line's EOL leaves the machine in START_RECORD; input that ends
\* inside a quoted field yields the record read so far.  [err, rows]
RECURSIVE ReaderRows(_, _, _, _)
ReaderRows(s, ps, delim, rows) ==
    IF ps.st = "ERROR" THEN [err |-> TRUE, rows |-> rows]
    ELSE IF s = <<>>
    THEN IF ps.st = "IN_QUOTED_FIELD"
         THEN [err |-> FALSE, rows |-> Append(rows, Append(ps.fields, ps.field))]
         ELSE [err |-> FALSE, rows |-> rows]
    ELSE LET n == ProcessChar(ps, Head(s), delim)
         IN  IF Head(s) = EOL /\ n.st = "START_RECORD"
             THEN ReaderRows(Tail(s), NewRecord, delim, Append(rows, n.fields))
             ELSE ReaderRows(Tail(s), n, delim, rows)

\* ---------------------------------------------------------- csv.DictReader
\* the list row[lf:] that DictReader stores under restkey, as one value
RECURSIVE RestList(_)
RestList(fields) ==
    IF fields = <<>> THEN <<"]">>
    ELSE <<"[">> \o Head(fields) \o RestList(Tail(fields))

\* the index of the last occurrence of key in names, 0 when there is none
RECURSIVE LastIndex(_, _, _)
LastIndex(names, key, k) ==
    IF k = 0 THEN 0
    ELSE IF names[k] = key THEN k
    ELSE LastIndex(names, key, k - 1)

Range(s) == {s[i] : i \in 1..Len(s)}

\* dict(zip(fieldnames, row)), then restkey for the surplus fields or restval
\* for the missing ones
DictRow(names, row) ==
    LET lf == Len(names)
        lr == Len(row)
        zipped == [k \in Range(names) |->
                      LET i == LastIndex(names, k, lf)
                      IN  IF i > lr THEN None ELSE row[i]]
    IN  IF lf < lr
        THEN [k \in Range(names) \cup {None} |->
                 IF k = None THEN RestList(SubSeq(row, lf + 1, lr)) ELSE zipped[k]]
        ELSE zipped

\* the rows of a DictReader: the first record is the header, and the empty
\* records after it are skipped
DictRows(records) ==
    IF records = <<>> THEN <<>>
    ELSE LET body == SelectSeq(Tail(records), LAMBDA r : r # <<>>)
         IN  [i \in 1..Len(body) |-> DictRow(Head(records), body[i])]

read_csv(f, p, delim) ==
    LET e == OpenRead(f, p)
    IN  IF e # "none" THEN ReadHandler("read_csv", p, delim, e)
        ELSE IF ~Decodable(f[p].data)
             THEN ReadHandler("read_csv", p, delim, "UnicodeDecodeError")
        ELSE LET r == ReaderRows(MarkLines(f[p].data, FALSE), NewRecord, delim, <<>>)
             IN  IF r.err THEN ReadHandler("read_csv", p, delim, "csv.Error")
                 ELSE Returned("read_csv", p, delim, DictRows(r.rows))

\* ------------------------------------------------------------- FileWriter
\* write_text: [fs, ret]
write_text(f, p, content, mode) ==
    LET o == OpenWrite(f, p, mode)
        arg == <<content, mode>>
    IN  IF o.exc # "none"
        THEN [fs |-> f, ret |-> Raised("write_text", p, arg, "OSError", "write failed")]
        ELSE [fs |-> WriteData(o.fs, p, TranslateOnWrite(content)),
              ret |-> Returned("write_text", p, arg, <<>>)]

\* ------------------------------------------------------------ csv.writer
\* a field is quoted when it holds the delimiter, the quote character or a
\* character of the line terminator; a quote character inside is doubled
NeedsQuote(field, delim) ==
    \E i \in 1..Len(field) : field[i] \in {delim, QUOTE, CR, LF}

RECURSIVE DoubleQuotes(_)
DoubleQuotes(field) ==
    IF field = <<>> THEN <<>>
    ELSE (IF Head(field) = QUOTE THEN <<QUOTE, QUOTE>> ELSE <<Head(field)>>)
         \o DoubleQuotes(Tail(field))

FormatFieldNeverQuotes(field, delim) == field

FormatField(field, delim) ==
    IF NeedsQuote(field, delim)
    THEN <<QUOTE>> \o DoubleQuotes(field) \o <<QUOTE>>
    ELSE field

RECURSIVE JoinFields(_, _)
JoinFields(fields, delim) ==
    IF fields = <<>> THEN <<>>
    ELSE IF Len(fields) = 1 THEN FormatField(fields[1], delim)
    ELSE FormatField(fields[1], delim) \o <<delim>> \o JoinFields(Tail(fields), delim)

\* writer.writerow: a record that would be empty (one empty field) is
\* written as a quoted empty field; the line ends with '\r\n'
WriteRow(fields, delim) ==
    LET rec == JoinFields(fields, delim)
    IN  (IF Len(fields) > 0 /\ rec = <<>> THEN <<QUOTE, QUOTE>> ELSE rec) \o <<CR, LF>>

\* ---------------------------------------------------------- csv.DictWriter
\* A row dict is the sequence of its <<key, value>> items in insertion
\* order, with distinct keys.
Keys(row) == [i \in 1..Len(row) |-> row[i][1]]

\* rowdict.get(key, restval), restval = ''
Get(row, key) ==
    IF \E i \in 1..Len(row) : row[i][1] = key
    THEN row[CHOOSE i \in 1..Len(row) : row[i][1] = key][2]
    ELSE <<>>

\* extrasaction='raise': the row has a key that is no field name
WrongFields(row, names) == Range(Keys(row)) \ Range(names)

DictToList(row, names) == [i \in 1..Len(names) |-> Get(row, names[i])]

\* writer.writerows(data) on the buffer buf: rows are written until one has
\* a wrong field; [exc, buf]
RECURSIVE WriteRows(_, _, _, _)
WriteRows(data, names, delim, buf) ==
    IF data = <<>> THEN [exc |-> "none", buf |-> buf]
    ELSE IF WrongFields(Head(data), names) # {}
    THEN [exc |-> "ValueError", buf |-> buf]
    ELSE WriteRows(Tail(data), names, delim,
                   buf \o WriteRow(DictToList(Head(data), names), delim))

\* fieldnames as write_csv resolves it: the first row's keys when omitted
ResolveFieldnames(data, fieldnames) ==
    IF fieldnames = None THEN Keys(data[1]) ELSE fieldnames

\* write_csv: [fs, ret].  The two argument checks come before the file is
\* opened; a ValueError of the DictWriter leaves the with block after the
\* file was truncated, and what was written so far is flushed on close.
write_csv(f, p, data, fieldnames, delim) ==
    LET arg == <<data, fieldnames, delim>>
    IN  IF data = <<>>
        THEN [fs |-> f, ret |-> RaisedPlain("write_csv", p, arg, "ValueError", "data empty")]
        ELSE LET names == ResolveFieldnames(data, fieldnames)
                 o == OpenWrite(f, p, "w")
                 w == WriteRows(data, names, delim, WriteRow(names, delim))
             IN  IF names = <<>>
                 THEN [fs |-> f,
                       ret |-> RaisedPlain("write_csv", p, arg, "ValueError", "fieldnames empty")]
                 ELSE IF o.exc # "none"
                 THEN [fs |-> f,
                       ret |-> Raised("write_csv", p, arg, "OSError", "write failed")]
                 ELSE [fs |-> WriteData(o.fs, p, w.buf),
                       ret |-> IF w.exc = "none"
                               THEN Returned("write_csv", p, arg, <<>>)
                               ELSE RaisedPlain("write_csv", p, arg, w.exc,
                                           "dict contains fields not in fieldnames")]

\* --------------------------------------------------------------- FileUtils
\* os.makedirs(directory): the missing components are created from the top;
\* mkdir under a regular file fails before anything is created
RECURSIVE MakeDirs(_, _, _)
MakeDirs(f, p, k) ==
    IF k > Len(p) THEN f
    ELSE LET q == SubSeq(p, 1, k)
         IN  MakeDirs(IF Exists(f, q) THEN f ELSE Put(f, q, DirEntry), p, k + 1)

\* ensure_dir: [fs, ret]
ensure_dir(f, p) ==
    IF Exists(f, p) THEN [fs |-> f, ret |-> Returned("ensure_dir", p, <<>>, <<>>)]
    ELSE IF ResolveParent(f, p) = "NotADirectoryError"
    THEN [fs |-> f, ret |-> Raised("ensure_dir", p, <<>>, "OSError", "mkdir failed")]
    ELSE [fs |-> MakeDirs(f, p, 1), ret |-> Returned("ensure_dir", p, <<>>, <<>>)]

\* the names os.listdir(directory) returns, as a set
Children(f, dir) == {q[Len(q)] : q \in {r \in DOMAIN f : Parent(r) = dir}}

\* the orders os.listdir may return them in
Orders(names) ==
    {o \in [1..Cardinality(names) -> names] :
        \A i, j \in 1..Cardinality(names) : o[i] = o[j] => i = j}

\* str.endswith
EndsWith(name, suffix) ==
    /\ Len(suffix) <= Len(name)
    /\ SubSeq(name, Len(name) - Len(suffix) + 1, Len(name)) = suffix

\* the loop of list_files over the listing
RECURSIVE FilterFilesNoIsFile(_, _, _, _)
FilterFilesNoIsFile(f, dir, extension, listing) ==
    IF listing = <<>> THEN <<>>
    ELSE (IF extension = None \/ EndsWith(Head(listing), extension)
          THEN <<Join(dir, Head(listing))>>
          ELSE <<>>)
         \o FilterFilesNoIsFile(f, dir, extension, Tail(listing))

RECURSIVE FilterFiles(_, _, _, _)
FilterFiles(f, dir, extension, listing) ==
    IF listing = <<>> THEN <<>>
    ELSE (IF /\ IsFile(f, Join(dir, Head(listing)))
             /\ (extension = None \/ EndsWith(Head(listing), extension))
          THEN <<Join(dir, Head(listing))>>
          ELSE <<>>)
         \o FilterFiles(f, dir, extension, Tail(listing))

\* list_files, listing being what os.listdir returns
list_files(f, dir, extension, listing) ==
    IF ~Exists(f, dir)
    THEN Raised("list_files", dir, extension, "FileNotFoundError", "directory does not exist")
    ELSE IF ~IsDir(f, dir)
    THEN RaisedPlain("list_files", dir, extension, "NotADirectoryError", "")
    ELSE Returned("list_files", dir, extension, FilterFiles(f, dir, extension, listing))

\* os.path.splitext(file_path)[1] with sep '/' and extsep '.': positions are
\* counted from 1, 0 standing for "not found"
RECURSIVE RFind(_, _, _)
RFind(p, c, k) ==
    IF k = 0 THEN 0
    ELSE IF p[k] = c THEN k
    ELSE RFind(p, c, k - 1)

\* the while loop: the first position from i before dotIndex that holds no
\* '.', 0 when there is none
RECURSIVE FirstNonDot(_, _, _)
FirstNonDot(p, i, dotIndex) ==
    IF i >= dotIndex THEN 0
    ELSE IF p[i] # "." THEN i
    ELSE FirstNonDot(p, i + 1, dotIndex)

get_file_extensionAnyDot(p) ==
    LET sepIndex == RFind(p, "/", Len(p))
        dotIndex == RFind(p, ".", Len(p))
    IN  IF dotIndex > sepIndex THEN SubSeq(p, dotIndex, Len(p)) ELSE <<>>

get_file_extension(p) ==
    LET sepIndex == RFind(p, "/", Len(p))
        dotIndex == RFind(p, ".", Len(p))
    IN  IF dotIndex > sepIndex /\ FirstNonDot(p, sepIndex + 1, dotIndex) # 0
        THEN SubSeq(p, dotIndex, Len(p))
        ELSE <<>>

\* ================================================================ SpecText
\* write_text, read_text and read_lines on a filesystem that starts in one
\* of TextSeeds.
Texts == {<<>>, <<"a", LF>>, <<CR, "b">>, <<CR, LF>>}

TextPaths == {<<D, A_T>>, <<D, S, A_T>>, <<D>>}

TextSeeds ==
    { (<<D>> :> DirEntry),
      (<<D>> :> DirEntry) @@ (<<D, A_T>> :> FileEntry(<<"b", CR>>)),
      (<<D>> :> DirEntry) @@ (<<D, S>> :> FileEntry(<<>>)),
      (<<D>> :> DirEntry) @@ (<<D, S>> :> DirEntry) }

InitText ==
    /\ fs \in TextSeeds
    /\ fs0 = fs
    /\ pre = fs
    /\ ret = NoCall
    /\ log = <<>>
    /\ pc = "start"

WriteText(p, content, mode) ==
    LET o == write_text(fs, p, content, mode)
    IN  /\ Len(log) < MaxCalls
        /\ fs' = o.fs
        /\ pre' = fs
        /\ ret' = o.ret
        /\ log' = IF o.ret.exc = "none" THEN Append(log, o.ret) ELSE log
        /\ UNCHANGED <<fs0, pc>>

ReadText(p) ==
    /\ ret' = read_text(fs, p)
    /\ pre' = fs
    /\ UNCHANGED <<fs, fs0, log, pc>>

ReadLines(p) ==
    /\ ret' = read_lines(fs, p)
    /\ pre' = fs
    /\ UNCHANGED <<fs, fs0, log, pc>>

NextText ==
    \/ \E p \in TextPaths, c \in Texts, m \in {"w", "a"} : WriteText(p, c, m)
    \/ \E p \in TextPaths : ReadText(p)
    \/ \E p \in TextPaths : ReadLines(p)

SpecText == InitText /\ [][NextText]_vars

\* the last element of a non-empty sequence
Last(s) == s[Len(s)]

\* C1: write_text(path, X) in overwrite mode followed by read_text(path)
\* returns a string equal to X, whatever line terminators X contains.
C1_TextRoundTrip ==
    (/\ ret.op = "read_text"
     /\ log # <<>>
     /\ Last(log).path = ret.path
     /\ Last(log).arg[2] = "w")
    => (ret.exc = "none" /\ ret.val = Last(log).arg[1])

\* the successful write_text calls made on p, in call order
CallsOn(p) == SelectSeq(log, LAMBDA c : c.path = p)

\* the index of the last overwrite call in calls, 0 when there is none
RECURSIVE LastOverwrite(_, _)
LastOverwrite(calls, k) ==
    IF k = 0 THEN 0
    ELSE IF calls[k].arg[2] = "w" THEN k
    ELSE LastOverwrite(calls, k - 1)

\* the contents of calls[k..], concatenated
RECURSIVE ContentsFrom(_, _)
ContentsFrom(calls, k) ==
    IF k > Len(calls) THEN <<>>
    ELSE calls[k].arg[1] \o ContentsFrom(calls, k + 1)

\* what the claim says the file at p holds after the calls of log
Expected(p) ==
    LET calls == CallsOn(p)
        k == LastOverwrite(calls, Len(calls))
        prior == IF IsFile(fs0, p) THEN fs0[p].data ELSE <<>>
    IN  IF k = 0 THEN prior \o ContentsFrom(calls, 1)
        ELSE ContentsFrom(calls, k)

\* C2: after any sequence of successful write_text calls on a path the file
\* exists and holds the content of the most recent overwrite call followed by
\* the contents of the append calls made after it, or, with no overwrite
\* call, the prior content (empty when absent) followed by all the appended
\* contents.
C2_WriteTextContent ==
    \A p \in TextPaths :
        CallsOn(p) # <<>> => (IsFile(fs, p) /\ fs[p].data = Expected(p))

\* an overwrite and two appends after it have acted on d/a.t, which held
\* other content before
C2_Witness ==
    /\ Len(log) = 3
    /\ \A i \in 1..3 : log[i].path = <<D, A_T>> /\ log[i].arg[1] # <<>>
    /\ log[1].arg[2] = "w" /\ log[2].arg[2] = "a" /\ log[3].arg[2] = "a"
    /\ IsFile(fs0, <<D, A_T>>)
    /\ fs[<<D, A_T>>].data = log[1].arg[1] \o log[2].arg[1] \o log[3].arg[1]

\* ================================================================ SpecRead
\* The five readers on a filesystem that starts in one of ReadSeeds and that
\* nothing else changes.
ReadContents ==
    { <<>>, <<"1">>, <<"[", "1", "]">>, <<"[", "1">>, <<"]">>, <<"1", "[">>,
      <<XFF>>, <<"1", XFF>> }

ReadSeeds ==
    { (<<D>> :> DirEntry) @@ (<<D, A_T>> :> FileEntry(c)) @@ rest :
        c \in ReadContents,
        rest \in { <<>>, (<<D, S>> :> FileEntry(<<>>)), (<<D, S>> :> DirEntry) } }

Delimiters == {",", ";"}

InitRead ==
    /\ fs \in ReadSeeds
    /\ fs0 = fs
    /\ pre = fs
    /\ ret = NoCall
    /\ log = <<>>
    /\ pc = "start"

ReadJson(p) ==
    /\ ret' = read_json(fs, p)
    /\ pre' = fs
    /\ UNCHANGED <<fs, fs0, log, pc>>

ReadCsv(p, delim) ==
    /\ ret' = read_csv(fs, p, delim)
    /\ pre' = fs
    /\ UNCHANGED <<fs, fs0, log, pc>>

ReadYaml(p) ==
    /\ ret' = read_yaml(fs, p)
    /\ pre' = fs
    /\ UNCHANGED <<fs, fs0, log, pc>>

NextRead ==
    \/ \E p \in Paths : ReadText(p)
    \/ \E p \in Paths : ReadLines(p)
    \/ \E p \in Paths : ReadJson(p)
    \/ \E p \in Paths, d \in Delimiters : ReadCsv(p, d)
    \/ \E p \in Paths : ReadYaml(p)

SpecRead == InitRead /\ [][NextRead]_vars

ReadOps == {"read_text", "read_lines", "read_json", "read_csv", "read_yaml"}

UnderRegularFile(f, p) == \E k \in 1..(Len(p) - 1) : IsFile(f, SubSeq(p, 1, k))

Malformed(op, data) ==
    \/ ~Decodable(data)
    \/ op = "read_json" /\ ~JsonLoad(TranslateOnRead(data)).ok
    \/ op = "read_yaml" /\ ~YamlLoad(TranslateOnRead(data)).ok

\* the exceptions of the ParseError kind
ParseErrors == {"JSONDecodeError", "YAMLError", "csv.Error"}

\* C6: a reader called on a readable file whose content cannot be decoded
\* for its format fails with an exception of the ParseError kind.
C6_ParseErrorOnMalformed ==
    (ret.op \in ReadOps /\ IsFile(pre, ret.path) /\ Malformed(ret.op, pre[ret.path].data))
    => ret.exc \in ParseErrors

\* ================================================================= SpecCsv
\* One write_csv call on d/a.t, then one read_csv call on it, on a
\* filesystem that starts in one of CsvSeeds.
KA == <<"a">>
KB == <<"b", ",">>

\* row dicts, as sequences of <<key, value>> items
CsvRows ==
    { <<>>,
      << <<KA, <<>>>> >>,
      << <<KA, <<"x">>>> >>,
      << <<KB, <<LF>>>> >>,
      << <<KA, <<",", QUOTE>>>>, <<KB, <<";", CR, LF>>>> >>,
      << <<KB, <<"x">>>>, <<KA, <<>>>> >>,
      << <<KA, <<"x">>>>, <<KB, <<>>>> >> }

CsvData == UNION { [1..n -> CsvRows] : n \in 0..MaxRows }

CsvFieldnames == {None, <<>>, <<KA>>, <<KA, KB>>}

CsvDelimiters == {",", ";", QUOTE}

CsvPath == <<D, A_T>>

CsvSeeds ==
    { <<>>,
      (<<D>> :> DirEntry),
      (<<D>> :> DirEntry) @@ (CsvPath :> FileEntry(<<"o", "l", "d">>)) }

InitCsv ==
    /\ fs \in CsvSeeds
    /\ fs0 = fs
    /\ pre = fs
    /\ ret = NoCall
    /\ log = <<>>
    /\ pc = "start"

WriteCsv(p, data, fieldnames, delim) ==
    LET o == write_csv(fs, p, data, fieldnames, delim)
    IN  /\ pc = "start"
        /\ pc' = "written"
        /\ fs' = o.fs
        /\ pre' = fs
        /\ ret' = o.ret
        /\ log' = IF o.ret.exc = "none" THEN Append(log, o.ret) ELSE log
        /\ UNCHANGED fs0

ReadCsvBack(p, delim) ==
    /\ pc = "written"
    /\ pc' = "read"
    /\ ret' = read_csv(fs, p, delim)
    /\ pre' = fs
    /\ UNCHANGED <<fs, fs0, log>>

NextCsv ==
    \/ \E data \in CsvData, names \in CsvFieldnames, d \in CsvDelimiters :
          WriteCsv(CsvPath, data, names, d)
    \/ \E d \in CsvDelimiters : ReadCsvBack(CsvPath, d)

SpecCsv == InitCsv /\ [][NextCsv]_vars

\* a row dict as the mapping it is: dict equality ignores the order of items
AsMap(row) == [k \in Range(Keys(row)) |-> Get(row, k)]

AsMaps(data) == [i \in 1..Len(data) |-> AsMap(data[i])]

\* the last call was read_csv on the file that the write_csv call before it
\* wrote with fieldnames omitted, with the delimiter of that call
ReadBack ==
    /\ pc = "read"
    /\ log # <<>>
    /\ Last(log).op = "write_csv"
    /\ Last(log).path = ret.path
    /\ Last(log).arg[2] = None
    /\ Last(log).arg[3] = ret.arg

SameKeys(data) ==
    /\ data # <<>>
    /\ Keys(data[1]) # <<>>
    /\ \A i \in 1..Len(data) : Range(Keys(data[i])) = Range(Keys(data[1]))

RECURSIVE RowLines(_, _, _)
RowLines(data, names, delim) ==
    IF data = <<>> THEN <<>>
    ELSE WriteRow(DictToList(Head(data), names), delim)
         \o RowLines(Tail(data), names, delim)

\* C4: write_csv raises ValueError when rows is empty or fieldnames resolves
\* to empty; in every other case it raises no ValueError and, unless the
\* file cannot be opened, the file holds the header line followed by one
\* line per row.
C4_WriteCsvArguments ==
    ret.op = "write_csv" =>
        LET data == ret.arg[1]
            delim == ret.arg[3]
        IN  IF data = <<>> \/ ResolveFieldnames(data, ret.arg[2]) = <<>>
            THEN ret.exc = "ValueError"
            ELSE /\ ret.exc # "ValueError"
                 /\ ret.exc = "none" =>
                       fs[ret.path].data =
                           WriteRow(ResolveFieldnames(data, ret.arg[2]), delim)
                           \o RowLines(data, ResolveFieldnames(data, ret.arg[2]), delim)

\* C10: whenever write_csv raises ValueError the filesystem is as it was
\* before the call.
C10_ValueErrorLeavesFile ==
    (ret.op = "write_csv" /\ ret.exc = "ValueError") => fs = pre

\* ================================================================= SpecDir
\* ensure_dir and list_files on a filesystem that starts in any state over
\* Paths (the files empty).
DirSeeds ==
    { f \in UNION { [ps -> {DirEntry, FileEntry(<<>>)}] : ps \in SUBSET Paths } :
        WellFormed(f) }

Extensions == {None, <<>>, <<"t">>, <<".", "t">>, <<".", "j">>}

InitDir ==
    /\ fs \in DirSeeds
    /\ fs0 = fs
    /\ pre = fs
    /\ ret = NoCall
    /\ log = <<>>
    /\ pc = "start"

EnsureDir(p) ==
    LET o == ensure_dir(fs, p)
    IN  /\ fs' = o.fs
        /\ pre' = fs
        /\ ret' = o.ret
        /\ UNCHANGED <<fs0, log, pc>>

ListFiles(dir, extension) ==
    \E listing \in Orders(Children(fs, dir)) :
        /\ ret' = list_files(fs, dir, extension, listing)
        /\ pre' = fs
        /\ UNCHANGED <<fs, fs0, log, pc>>

NextDir ==
    \/ \E p \in Paths : EnsureDir(p)
    \/ \E p \in Paths, e \in Extensions : ListFiles(p, e)

SpecDir == InitDir /\ [][NextDir]_vars

\* name is some text followed by suffix
HasSuffix(name, suffix) == \E k \in 0..Len(name) : name = SubSeq(name, 1, k) \o suffix

\* the regular files directly inside dir whose name ends with extension
FilesIn(f, dir, extension) ==
    { q \in DOMAIN f :
        /\ Parent(q) = dir
        /\ f[q].kind = "file"
        /\ (extension = None \/ HasSuffix(q[Len(q)], extension)) }

\* C8: list_files returns, as a set and without repetition, exactly the
\* regular files directly inside the directory whose name ends with the
\* extension (all of them when it is omitted), raises FileNotFoundError when
\* nothing exists at the directory path, and leaves the filesystem unchanged.
C8_ListFiles ==
    ret.op = "list_files" =>
        /\ fs = pre
        /\ ~Exists(pre, ret.path) => ret.exc = "FileNotFoundError"
        /\ IsDir(pre, ret.path) =>
              /\ ret.exc = "none"
              /\ Range(ret.val) = FilesIn(pre, ret.path, ret.arg)
              /\ Len(ret.val) = Cardinality(FilesIn(pre, ret.path, ret.arg))

\* d holds the file a.t, the directory s with a file a.t in it, and one more
\* entry; list_files(d, ".t") returned d/a.t alone
C8_Witness ==
    /\ ret.op = "list_files"
    /\ ret.path = <<D>>
    /\ ret.arg = <<".", "t">>
    /\ IsFile(pre, <<D, A_T>>)
    /\ IsFile(pre, <<D, S, A_T>>)
    /\ Exists(pre, <<D, B_J>>)
    /\ ret.val = << <<D, A_T>> >>

\* C9: whenever ensure_dir returns without error a directory exists at the
\* path, and a second ensure_dir on it returns without error and changes
\* nothing.
C9_EnsureDir ==
    (ret.op = "ensure_dir" /\ ret.exc = "none")
    => /\ IsDir(fs, ret.path)
       /\ ensure_dir(fs, ret.path).ret.exc = "none"
       /\ ensure_dir(fs, ret.path).fs = fs

\* ================================================================= SpecExt
\* get_file_extension on every path of at most MaxPathLen characters
PathChars == {"a", ".", "/"}

PathStrings == UNION { [1..n -> PathChars] : n \in 0..MaxPathLen }

InitExt ==
    /\ fs = <<>>
    /\ fs0 = fs
    /\ pre = fs
    /\ ret = NoCall
    /\ log = <<>>
    /\ pc = "start"

GetFileExtension(p) ==
    /\ ret' = Returned("get_file_extension", p, <<>>, get_file_extension(p))
    /\ pre' = fs
    /\ UNCHANGED <<fs, fs0, log, pc>>

NextExt == \E p \in PathStrings : GetFileExtension(p)

SpecExt == InitExt /\ [][NextExt]_vars

\* the part of p after its last '/'
BaseName(p) ==
    LET seps == {i \in 1..Len(p) : p[i] = "/"}
    IN  IF seps = {} THEN p
        ELSE SubSeq(p, (CHOOSE i \in seps : \A j \in seps : j <= i) + 1, Len(p))

\* the positions of '.' in name
Dots(name) == {i \in 1..Len(name) : name[i] = "."}

\* name from its final '.'
FromFinalDot(name) ==
    SubSeq(name, CHOOSE i \in Dots(name) : \A j \in Dots(name) : j <= i, Len(name))

\* C7 as stated: get_file_extension returns the base name from its final
\* '.', and the empty string when the base name has no '.'.
C7_ExtensionFromFinalDot ==
    ret.op = "get_file_extension" =>
        ret.val = IF Dots(BaseName(ret.path)) = {} THEN <<>>
                  ELSE FromFinalDot(BaseName(ret.path))

\* the final '.' of name comes after a character that is not '.'
DotAfterName(name) ==
    \E i \in Dots(name) :
        /\ \A j \in Dots(name) : j <= i
        /\ \E k \in 1..(i - 1) : name[k] # "."

\* C7 as amended: get_file_extension returns the base name from its final
\* '.' when a character other than '.' comes before that '.' in the base
\* name, and the empty string otherwise (no '.', or only '.' before the
\* final one).
C7_Extension ==
    ret.op = "get_file_extension" =>
        ret.val = IF DotAfterName(BaseName(ret.path))
                  THEN FromFinalDot(BaseName(ret.path))
                  ELSE <<>>

\* get_file_extension returned '.a' for a path whose directory part has a '.'
C7_Witness ==
    /\ ret.op = "get_file_extension"
    /\ ret.path = <<".", "/", "a", ".", "a">>
    /\ ret.val = <<".", "a">>

====
